---- MODULE Spec2Model ----
(***************************************************************************)
(* Model of the interaction log (src/data/storage_handler.py,              *)
(* StorageHandler.save_data / read_storage) and of the chat flow that      *)
(* produces (question, answer) pairs (src/app.py, process_query).          *)
(*                                                                         *)
(* The backing file is a sequence of JSON tokens, so that a truncated      *)
(* file, a partly written file and the text left by two writers that       *)
(* opened the file at the same time are values the parser has to judge.    *)
(* Every scalar token stands for the same number of bytes.                 *)
(***************************************************************************)
EXTENDS Integers, Sequences, FiniteSets, TLC

VARIABLES
    file,         \* the backing file storage.json: [exists, text]
    clock,        \* the wall clock read by datetime.now()
    pc,           \* per caller: the line of save_data it is about to run
    data,         \* per caller: the argument of save_data
    storage,      \* per caller: the local variable storage of save_data
    readExc,      \* per caller: the exception read_storage swallowed
    exc,          \* per caller: the exception save_data's handler caught
    ret,          \* per caller: what save_data returned
    solo,         \* per caller: no other call overlapped this one
    okLog,        \* the arguments of the successful calls of a clean run
    calls,        \* number of save_data calls started
    lastRead,     \* what the last stand-alone read_storage() returned
    chat_history, \* st.session_state.chat_history
    query_engine, \* st.session_state.query_engine
    logCalls,     \* arguments of the StorageHandler calls made by app.py
    queries,      \* number of process_query calls made
    lastQuery     \* the last process_query call: its argument and outcome

storageVars == <<file, clock, pc, data, storage, readExc, exc, ret, solo,
                 okLog, calls, lastRead>>
appVars == <<chat_history, query_engine, logCalls, queries, lastQuery>>
vars == <<file, clock, pc, data, storage, readExc, exc, ret, solo, okLog,
          calls, lastRead, chat_history, query_engine, logCalls, queries,
          lastQuery>>

-----------------------------------------------------------------------------
(* Bounds *)

MaxCalls == 2     \* save_data calls when two callers may overlap
MaxSeqCalls == 3  \* save_data calls when there is one caller
MaxClock == 1     \* ticks of the clock
MaxQueries == 3   \* process_query calls

Procs == {1, 2}

-----------------------------------------------------------------------------
(* Values.  A scalar is a pair <<tag, n>>. *)

Str(n) == <<"s", n>>
Null == <<"null", 0>>
Absent == <<"absent", 0>>
Obj == <<"obj", 0>>

\* datetime.now().isoformat(): an injective rendering of the clock value.
Isoformat(t) == <<"iso", t>>

Keys == <<"question", "answer", "timestamp">>
KeySet == {"question", "answer", "timestamp"}

\* A Python dict over the keys above; Absent marks a key the dict lacks.
EmptyDict == [k \in KeySet |-> Absent]

Dict(q, a, t) == [question |-> q, answer |-> a, timestamp |-> t]

\* The argument values of save_data tried by the model: a question and a
\* non-ASCII answer, a mapping that brings its own timestamp key (and is one
\* value shorter), and a mapping holding a value json cannot encode.
Fields == { Dict(Str(1), Str(2), Absent),
            Dict(Str(1), Absent, Str(3)),
            Dict(Str(1), Obj, Absent) }

Without(d, k) == [d EXCEPT ![k] = Absent]

DefaultMetadata == [version |-> Str(10), description |-> Str(11)]
OldMetadata == [version |-> Str(9), description |-> Str(11)]
NoMetadata == [version |-> Null, description |-> Null]

DefaultStore ==
    [type |-> "dict", entries |-> <<>>, lastUpdated |-> Null,
     metadata |-> DefaultMetadata]

\* A JSON document that is not a store: a top-level list.
JsonList ==
    [type |-> "list", entries |-> <<>>, lastUpdated |-> Null,
     metadata |-> NoMetadata]

NoStore ==
    [type |-> "none", entries |-> <<>>, lastUpdated |-> Null,
     metadata |-> NoMetadata]

-----------------------------------------------------------------------------
(* json.dump *)

Tok(t) == [t |-> t, k |-> "", v |-> Null]
KV(k, v) == [t |-> "kv", k |-> k, v |-> v]

RECURSIVE DumpKeys(_, _)
DumpKeys(d, i) ==
    IF i > Len(Keys) THEN <<>>
    ELSE (IF d[Keys[i]] = Absent THEN <<>> ELSE <<KV(Keys[i], d[Keys[i]])>>)
         \o DumpKeys(d, i + 1)

DumpEntry(d) == <<Tok("{")>> \o DumpKeys(d, 1) \o <<Tok("}")>>

RECURSIVE DumpEntries(_, _)
DumpEntries(es, i) ==
    IF i > Len(es) THEN <<>> ELSE DumpEntry(es[i]) \o DumpEntries(es, i + 1)

\* The chunks json's encoder yields for a value, in order.
Dump(s) ==
    IF s.type = "list" THEN <<Tok("[]")>>
    ELSE <<Tok("{"), Tok("entries[")>> \o DumpEntries(s.entries, 1)
         \o <<Tok("]"), KV("lastUpdated", s.lastUpdated),
              KV("version", s.metadata.version),
              KV("description", s.metadata.description), Tok("}")>>

\* Index of the first chunk whose value json cannot encode; 0 if none.
FirstBad(toks) ==
    LET bad == {i \in 1..Len(toks) : toks[i].v = Obj}
    IN  IF bad = {} THEN 0 ELSE CHOOSE i \in bad : \A j \in bad : i <= j

\* What a write of text at offset 0 leaves in a file that holds old.
Overlay(text, old) ==
    IF Len(old) > Len(text)
    THEN text \o SubSeq(old, Len(text) + 1, Len(old))
    ELSE text

-----------------------------------------------------------------------------
(* json.load *)

ParseFail == [ok |-> FALSE, dict |-> EmptyDict, entries |-> <<>>, next |-> 0]

RECURSIVE ParseEntry(_, _, _)
ParseEntry(text, i, d) ==
    IF i > Len(text) THEN ParseFail
    ELSE IF text[i].t = "}"
         THEN [ok |-> TRUE, dict |-> d, entries |-> <<>>, next |-> i + 1]
    ELSE IF text[i].t = "kv" /\ text[i].k \in KeySet
         THEN ParseEntry(text, i + 1, [d EXCEPT ![text[i].k] = text[i].v])
    ELSE ParseFail

RECURSIVE ParseEntries(_, _, _)
ParseEntries(text, i, acc) ==
    IF i > Len(text) THEN ParseFail
    ELSE IF text[i].t = "]"
         THEN [ok |-> TRUE, dict |-> EmptyDict, entries |-> acc, next |-> i + 1]
    ELSE IF text[i].t = "{"
         THEN LET r == ParseEntry(text, i + 1, EmptyDict)
              IN  IF r.ok THEN ParseEntries(text, r.next, Append(acc, r.dict))
                  ELSE ParseFail
    ELSE ParseFail

IsKV(text, i, k) == i <= Len(text) /\ text[i].t = "kv" /\ text[i].k = k

\* json.load of the file's text: [ok, val]; ok is FALSE on JSONDecodeError.
Load(text) ==
    IF text = <<Tok("[]")>> THEN [ok |-> TRUE, val |-> JsonList]
    ELSE IF Len(text) >= 2 /\ text[1].t = "{" /\ text[2].t = "entries["
    THEN LET r == ParseEntries(text, 3, <<>>)
         IN  IF /\ r.ok
                /\ IsKV(text, r.next, "lastUpdated")
                /\ IsKV(text, r.next + 1, "version")
                /\ IsKV(text, r.next + 2, "description")
                /\ Len(text) = r.next + 3
                /\ text[r.next + 3].t = "}"
             THEN [ok |-> TRUE,
                   val |-> [type |-> "dict", entries |-> r.entries,
                            lastUpdated |-> text[r.next].v,
                            metadata |->
                                [version |-> text[r.next + 1].v,
                                 description |-> text[r.next + 2].v]]]
             ELSE [ok |-> FALSE, val |-> NoStore]
    ELSE [ok |-> FALSE, val |-> NoStore]

-----------------------------------------------------------------------------
(* The backing file *)

Missing == [exists |-> FALSE, text |-> <<>>]
FileOf(text) == [exists |-> TRUE, text |-> text]

OldStore ==
    [type |-> "dict",
     entries |-> <<Dict(Str(4), Str(5), Isoformat(0))>>,
     lastUpdated |-> Isoformat(0),
     metadata |-> OldMetadata]

\* The files the program may find when it starts: none, a truncated one, a
\* JSON document that is no store, a store written earlier.
InitFiles ==
    { Missing, FileOf(<<Tok("{"), Tok("entries[")>>),
      FileOf(Dump(JsonList)), FileOf(Dump(OldStore)) }

\* The same, and a file of zero bytes (what open(..., 'w') leaves behind).
SeqInitFiles == InitFiles \cup {FileOf(<<>>)}

-----------------------------------------------------------------------------
(* StorageHandler.read_storage *)

\* open(..., 'r') and json.load: the exception they end in, or the value.
open_load(f) ==
    IF ~f.exists THEN [exc |-> "FileNotFoundError", val |-> NoStore]
    ELSE IF ~Load(f.text).ok THEN [exc |-> "JSONDecodeError", val |-> NoStore]
    ELSE [exc |-> "none", val |-> Load(f.text).val]

\* read_storage with `except: return None`.
read_storage_none(f) ==
    LET r == open_load(f)
    IN  IF r.exc = "none"
        THEN [raised |-> FALSE, exc |-> "none", val |-> r.val]
        ELSE [raised |-> FALSE, exc |-> r.exc, val |-> NoStore]

\* read_storage with `except FileNotFoundError:` in place of the bare except.
read_storage_narrow(f) ==
    LET r == open_load(f)
    IN  IF r.exc = "none"
        THEN [raised |-> FALSE, exc |-> "none", val |-> r.val]
        ELSE IF r.exc = "FileNotFoundError"
        THEN [raised |-> FALSE, exc |-> r.exc, val |-> DefaultStore]
        ELSE [raised |-> TRUE, exc |-> r.exc, val |-> NoStore]

\* The bare except of read_storage: every exception yields the default store.
read_storage(f) ==
    LET r == open_load(f)
    IN  IF r.exc = "none"
        THEN [raised |-> FALSE, exc |-> "none", val |-> r.val]
        ELSE [raised |-> FALSE, exc |-> r.exc, val |-> DefaultStore]

NeverRead == [raised |-> FALSE, exc |-> "none", val |-> NoStore]

\* A caller other than save_data reads the whole store.
ReadAll ==
    /\ lastRead' = read_storage(file)
    /\ lastRead' # lastRead
    /\ UNCHANGED <<file, clock, pc, data, storage, readExc, exc, ret, solo,
                   okLog, calls>>
    /\ UNCHANGED appVars

-----------------------------------------------------------------------------
(* StorageHandler.save_data, one action per line *)

\* save_data with `except OSError` in place of `except Exception`.
Handler_OSError(e) == IF e = "OSError" THEN "False" ELSE "raise"

\* except Exception: what save_data returns when e is raised inside the try.
Handler(e) ==
    IF e \in {"TypeError", "OSError", "FileNotFoundError", "JSONDecodeError"}
    THEN "False" ELSE "raise"

\* {'timestamp': now}: the entry built without the caller's fields.
NewEntry_noData(d, now) == [EmptyDict EXCEPT !.timestamp = Isoformat(now)]

\* {'timestamp': now, **data}: a timestamp key of the caller wins.
NewEntry_callerWins(d, now) ==
    IF d.timestamp = Absent THEN [d EXCEPT !.timestamp = Isoformat(now)] ELSE d

\* storage['entries'].append({**data, 'timestamp': now}): the entry built.
NewEntry(d, now) == [d EXCEPT !.timestamp = Isoformat(now)]

\* storage['entries'].insert(0, ...): the new entry goes to the front.
AppendEntry_front(s, d, now) ==
    [s EXCEPT !.entries = <<NewEntry(d, now)>> \o @]

\* storage['entries'].append(...): the new entry goes to the end of the list.
AppendEntry(s, d, now) == [s EXCEPT !.entries = Append(@, NewEntry(d, now))]

\* storage['lastUpdated'] = datetime.now().isoformat(), a second clock reading.
SetLastUpdated(s, now) == [s EXCEPT !.lastUpdated = Isoformat(now)]

Others(p) == Procs \ {p}

\* The frame of a step of caller p that touches only its locals.
Locals(p) ==
    /\ UNCHANGED <<clock, data, solo, okLog, calls, lastRead>>
    /\ UNCHANGED appVars

Fail(p, e) ==
    /\ exc' = [exc EXCEPT ![p] = e]
    /\ ret' = [ret EXCEPT ![p] = Handler(e)]
    /\ pc' = [pc EXCEPT ![p] = "ret"]

\* A call takes the lowest free caller slot: callers are anonymous threads.
StartCall(p, d) ==
    /\ pc[p] = "idle"
    /\ \A q \in Procs : q < p => pc[q] # "idle"
    /\ calls' = calls + 1
    /\ pc' = [pc EXCEPT ![p] = "l11"]
    /\ data' = [data EXCEPT ![p] = d]
    /\ solo' = [q \in Procs |->
                  IF q = p THEN \A o \in Others(p) : pc[o] = "idle"
                  ELSE IF pc[q] # "idle" THEN FALSE ELSE solo[q]]
    /\ okLog' = IF \A o \in Others(p) : pc[o] = "idle" THEN okLog
                ELSE [clean |-> FALSE, log |-> <<>>]
    /\ UNCHANGED <<file, clock, storage, readExc, exc, ret, lastRead>>
    /\ UNCHANGED appVars

Call(p, d) == calls < MaxCalls /\ StartCall(p, d)

SeqCall(d) == calls < MaxSeqCalls /\ StartCall(1, d)

\* line 11: storage = self.read_storage()
Line11(p) ==
    /\ pc[p] = "l11"
    /\ LET r == read_storage(file)
       IN  /\ readExc' = [readExc EXCEPT ![p] = r.exc]
           /\ IF r.raised
              THEN Fail(p, r.exc) /\ UNCHANGED storage
              ELSE /\ storage' = [storage EXCEPT ![p] = r.val]
                   /\ pc' = [pc EXCEPT ![p] = "l12"]
                   /\ UNCHANGED <<exc, ret>>
    /\ UNCHANGED file
    /\ Locals(p)

\* lines 12-15: the new entry, stamped with the clock read on line 14
Line12(p) ==
    /\ pc[p] = "l12"
    /\ IF storage[p].type # "dict"
       THEN Fail(p, "TypeError") /\ UNCHANGED storage
       ELSE /\ storage' = [storage EXCEPT ![p] =
                              AppendEntry(@, data[p], clock)]
            /\ pc' = [pc EXCEPT ![p] = "l16"]
            /\ UNCHANGED <<exc, ret>>
    /\ UNCHANGED <<file, readExc>>
    /\ Locals(p)

\* line 16: lastUpdated, stamped with the clock read on line 16
Line16(p) ==
    /\ pc[p] = "l16"
    /\ storage' = [storage EXCEPT ![p] = SetLastUpdated(@, clock)]
    /\ pc' = [pc EXCEPT ![p] = "l18"]
    /\ UNCHANGED <<file, readExc, exc, ret>>
    /\ Locals(p)

\* line 18: open(..., 'w') creates or truncates the file, or fails
Line18(p) ==
    /\ pc[p] = "l18"
    /\ \/ /\ file' = FileOf(<<>>)
          /\ pc' = [pc EXCEPT ![p] = "l19"]
          /\ UNCHANGED <<exc, ret>>
       \/ /\ Fail(p, "OSError")
          /\ UNCHANGED file
    /\ UNCHANGED <<storage, readExc>>
    /\ Locals(p)

\* What line 19 and the close of the with block write, and how they end:
\* the chunks before the first value json cannot encode, or all of them.
Written(s) ==
    LET toks == Dump(s)
        b == FirstBad(toks)
    IN  IF b > 0 THEN [exc |-> "TypeError", text |-> SubSeq(toks, 1, b - 1)]
        ELSE [exc |-> "none", text |-> toks]

\* line 19 and the end of the with block: json.dump, flush and close
Line19(p) ==
    /\ pc[p] = "l19"
    /\ LET w == Written(storage[p])
       IN  \/ /\ w.exc # "none"
              /\ file' = FileOf(Overlay(w.text, file.text))
              /\ Fail(p, w.exc)
           \/ /\ w.exc = "none"
              /\ file' = FileOf(Overlay(w.text, file.text))
              /\ ret' = [ret EXCEPT ![p] = "True"]
              /\ pc' = [pc EXCEPT ![p] = "ret"]
              /\ UNCHANGED exc
           \/ /\ w.exc = "none"
              /\ Fail(p, "OSError")
              /\ UNCHANGED file
    /\ UNCHANGED <<storage, readExc>>
    /\ Locals(p)

\* save_data hands its result to the caller
Return(p) ==
    /\ pc[p] = "ret"
    /\ pc' = [pc EXCEPT ![p] = "idle"]
    /\ okLog' = IF ~okLog.clean THEN okLog
                ELSE IF ret[p] = "True"
                THEN [okLog EXCEPT !.log = Append(@, data[p])]
                ELSE [clean |-> FALSE, log |-> <<>>]
    /\ data' = [data EXCEPT ![p] = EmptyDict]
    /\ storage' = [storage EXCEPT ![p] = NoStore]
    /\ readExc' = [readExc EXCEPT ![p] = "none"]
    /\ exc' = [exc EXCEPT ![p] = "none"]
    /\ ret' = [ret EXCEPT ![p] = "pending"]
    /\ solo' = [solo EXCEPT ![p] = TRUE]
    /\ UNCHANGED <<file, clock, calls, lastRead>>
    /\ UNCHANGED appVars

\* Time passes.  The clock is read on lines 14 and 16 only, so a tick is
\* taken when some caller is about to read it: a tick at any other moment
\* leads to the same readings.
Tick ==
    /\ clock < MaxClock
    /\ \E p \in Procs : pc[p] \in {"l12", "l16"}
    /\ clock' = clock + 1
    /\ UNCHANGED <<file, pc, data, storage, readExc, exc, ret, solo, okLog,
                   calls, lastRead>>
    /\ UNCHANGED appVars

-----------------------------------------------------------------------------
(* app.py: the chat flow *)

\* The text of a question: a sequence of characters.
Queries == { <<>>, <<" ">>, <<"a">>, <<" ", "b">> }

\* What query_engine.query(query) can return; str(response) is its text.
Responses == { [response |-> <<"x">>], [response |-> <<"y", "z">>] }

PyStr(r) == r.response

\* not query.strip(): nothing is left once the white space is stripped.
IsBlank(q) == \A i \in 1..Len(q) : q[i] = " "

NoQuery == [query |-> <<>>, outcome |-> "none", answer |-> <<>>]

\* process_query without the check of lines 286-288 for a blank question.
process_query_noBlankCheck(q, out, r) ==
    /\ queries < MaxQueries
    /\ queries' = queries + 1
    /\ IF query_engine = "None"
       THEN /\ lastQuery' = [query |-> q, outcome |-> "no_engine",
                             answer |-> <<>>]
            /\ UNCHANGED chat_history
       ELSE IF out = "raise"
       THEN /\ lastQuery' = [query |-> q, outcome |-> "error", answer |-> <<>>]
            /\ UNCHANGED chat_history
       ELSE /\ lastQuery' = [query |-> q, outcome |-> "answered",
                             answer |-> PyStr(r)]
            /\ chat_history' = Append(chat_history,
                                  [question |-> q, answer |-> PyStr(r)])
    /\ UNCHANGED <<query_engine, logCalls>>
    /\ UNCHANGED storageVars

\* process_query(query), lines 284-300.  `out` is how query_engine.query
\* ends: with a response, or with an exception (r is then not used).
process_query(q, out, r) ==
    /\ queries < MaxQueries
    /\ queries' = queries + 1
    /\ IF IsBlank(q)
       THEN /\ lastQuery' = [query |-> q, outcome |-> "blank", answer |-> <<>>]
            /\ UNCHANGED chat_history
       ELSE IF query_engine = "None"
       THEN /\ lastQuery' = [query |-> q, outcome |-> "no_engine",
                             answer |-> <<>>]
            /\ UNCHANGED chat_history
       ELSE IF out = "raise"
       THEN /\ lastQuery' = [query |-> q, outcome |-> "error", answer |-> <<>>]
            /\ UNCHANGED chat_history
       ELSE /\ lastQuery' = [query |-> q, outcome |-> "answered",
                             answer |-> PyStr(r)]
            /\ chat_history' = Append(chat_history,
                                  [question |-> q, answer |-> PyStr(r)])
    /\ UNCHANGED <<query_engine, logCalls>>
    /\ UNCHANGED storageVars

\* "Process Documents", lines 318-329: create_query_engine returns an engine,
\* or None when it caught an exception.
ProcessDocuments(engine) ==
    /\ query_engine' = engine
    /\ query_engine' # query_engine
    /\ UNCHANGED <<chat_history, logCalls, queries, lastQuery>>
    /\ UNCHANGED storageVars

\* "Clear Chat History", lines 332-334
ClearChatHistory ==
    /\ chat_history # <<>>
    /\ chat_history' = <<>>
    /\ UNCHANGED <<query_engine, logCalls, queries, lastQuery>>
    /\ UNCHANGED storageVars

-----------------------------------------------------------------------------
(* The specifications *)

InitApp ==
    /\ chat_history = <<>>
    /\ query_engine = "None"
    /\ logCalls = <<>>
    /\ queries = 0
    /\ lastQuery = NoQuery

InitLocals ==
    /\ clock = 0
    /\ pc = [p \in Procs |-> "idle"]
    /\ data = [p \in Procs |-> EmptyDict]
    /\ storage = [p \in Procs |-> NoStore]
    /\ readExc = [p \in Procs |-> "none"]
    /\ exc = [p \in Procs |-> "none"]
    /\ ret = [p \in Procs |-> "pending"]
    /\ solo = [p \in Procs |-> TRUE]
    /\ calls = 0
    /\ lastRead = NeverRead

Init ==
    /\ file \in InitFiles
    /\ okLog = [clean |-> file = Missing, log |-> <<>>]
    /\ InitLocals
    /\ InitApp

Next ==
    \/ \E p \in Procs, d \in Fields : Call(p, d)
    \/ \E p \in Procs : Line11(p)
    \/ \E p \in Procs : Line12(p)
    \/ \E p \in Procs : Line16(p)
    \/ \E p \in Procs : Line18(p)
    \/ \E p \in Procs : Line19(p)
    \/ \E p \in Procs : Return(p)
    \/ Tick

Spec == Init /\ [][Next]_vars

\* One caller at a time, and a reader of the whole store between the calls.
NextSeq ==
    \/ \E d \in Fields : SeqCall(d)
    \/ Line11(1)
    \/ Line12(1)
    \/ Line16(1)
    \/ Line18(1)
    \/ Line19(1)
    \/ Return(1)
    \/ Tick
    \/ ReadAll

InitSeq ==
    /\ file \in SeqInitFiles
    /\ okLog = [clean |-> file = Missing, log |-> <<>>]
    /\ InitLocals
    /\ InitApp

SpecSeq == InitSeq /\ [][NextSeq]_vars

\* The chat flow of one session; the log starts with no backing file.
InitChat ==
    /\ file = Missing
    /\ okLog = [clean |-> TRUE, log |-> <<>>]
    /\ InitLocals
    /\ InitApp

NextApp ==
    \/ \E q \in Queries, out \in {"return", "raise"}, r \in Responses :
          process_query(q, out, r)
    \/ \E engine \in {"None", "engine"} : ProcessDocuments(engine)
    \/ ClearChatHistory

SpecApp == InitChat /\ [][NextApp]_vars

-----------------------------------------------------------------------------
(* Shared vocabulary of the properties *)

Last(seq) == seq[Len(seq)]

Returned(p) == pc[p] = "ret"
Succeeded(p) == pc[p] = "ret" /\ ret[p] = "True"

\* Every value of d is one json can encode.
Serializable(d) == \A k \in KeySet : d[k] # Obj

\* A file read_storage cannot use: missing, empty, or not JSON.
Unusable(f) == ~f.exists \/ f.text = <<>> \/ ~Load(f.text).ok

\* No file, or a file that holds a complete JSON document.
Intact(f) == ~f.exists \/ Load(f.text).ok

SameFields(e, d) == Without(e, "timestamp") = Without(d, "timestamp")

IsPrefix(a, b) == Len(a) <= Len(b) /\ SubSeq(b, 1, Len(a)) = a

-----------------------------------------------------------------------------
(* C1 *)

\* C1: after a successful save_data that no other call overlapped, the
\* lastUpdated held in the file equals the timestamp of the last entry, also
\* when the clock advances while the call runs.
C1_LastUpdatedIsLastTimestamp ==
    \A p \in Procs :
        (Succeeded(p) /\ solo[p]) =>
            LET s == read_storage(file).val
            IN  s.lastUpdated = Last(s.entries).timestamp

-----------------------------------------------------------------------------
(* C2 *)

C2_Inv ==
    /\ (okLog.clean /\ pc[1] \in {"idle", "l11"}) =>
          LET s == read_storage(file).val
          IN  /\ Len(s.entries) = Len(okLog.log)
              /\ \A i \in 1..Len(okLog.log) :
                    SameFields(s.entries[i], okLog.log[i])
    /\ pc[1] \in {"l12"} => storage[1] = read_storage(file).val
    /\ Succeeded(1) => read_storage(file).val = storage[1]

C2_Step ==
    (pc[1] = "l12" /\ pc'[1] = "l16") =>
        /\ Len(storage'[1].entries) = Len(storage[1].entries) + 1
        /\ IsPrefix(storage[1].entries, storage'[1].entries)
        /\ SameFields(Last(storage'[1].entries), data[1])

\* C2: starting with no backing file, after N sequential successful
\* save_data calls read_storage returns N entries, the i-th carrying the
\* fields of the i-th call; each successful append starts from the entries
\* the file holds, adds exactly one entry at the end and leaves the earlier
\* ones as they were.
C2_SequentialAppends == []C2_Inv /\ [][C2_Step]_vars

\* Three sequential calls have succeeded, with different arguments.
C2_Witness ==
    /\ okLog.clean
    /\ Len(okLog.log) = 3
    /\ okLog.log[1] # okLog.log[2]
    /\ pc[1] = "idle"

-----------------------------------------------------------------------------
(* C3 *)

\* C3: the backing file is a complete, parseable store whenever a save_data
\* call that found one has ended, also when the call failed on a value json
\* cannot encode: no truncated or partly written file is left for the next
\* read_storage.
C3_NoPartialFile ==
    \A p \in Procs :
        ( /\ Returned(p)
          /\ solo[p]
          /\ readExc[p] = "none"
          /\ exc[p] # "OSError" ) =>
            /\ file.exists
            /\ Load(file.text).ok

\* The same while the call runs: no step takes the file from a complete
\* document (or no file) to a truncated one.  Line 18 does.
C3_NoPartialFileDuringCall == [][Intact(file) => Intact(file')]_vars

-----------------------------------------------------------------------------
(* C4 *)

\* C4 as stated: after a save_data(fields) that returned true, the last entry
\* read_storage returns, with its timestamp key removed, equals fields.
C4_LastEntryEqualsFields ==
    (Succeeded(1) /\ Serializable(data[1])) =>
        Without(Last(read_storage(file).val.entries), "timestamp") = data[1]

\* C4 amended: after a save_data(fields) that returned true, the last entry
\* read_storage returns, with its timestamp key removed, equals fields with
\* its own timestamp key (if it has one) removed.
C4_LastEntryEqualsOtherFields ==
    (Succeeded(1) /\ Serializable(data[1])) =>
        /\ read_storage(file).val.entries # <<>>
        /\ Without(Last(read_storage(file).val.entries), "timestamp")
              = Without(data[1], "timestamp")

\* A call whose fields bring a timestamp key of their own has succeeded.
C4_Witness == Succeeded(1) /\ data[1].timestamp # Absent

-----------------------------------------------------------------------------
(* C5 *)

C5_Result(f, raised, val) ==
    /\ ~raised
    /\ IF Unusable(f)
       THEN /\ val.type = "dict"
            /\ val.entries = <<>>
            /\ val.lastUpdated = Null
            /\ val.metadata = [version |-> Str(10), description |-> Str(11)]
       ELSE val = Load(f.text).val

C5_Step ==
    /\ lastRead' # lastRead =>
          C5_Result(file, lastRead'.raised, lastRead'.val)
    /\ (pc[1] = "l11" /\ pc'[1] # "l11") =>
          /\ ret'[1] # "raise"
          /\ pc'[1] = "l12"
          /\ C5_Result(file, FALSE, storage'[1])

\* C5: read_storage never raises; for a file that does not exist, is empty
\* or does not parse as JSON it returns the default store, and otherwise the
\* value the file holds.
C5_ReadNeverRaises == [][C5_Step]_vars

\* A stand-alone read of a file that is neither empty nor JSON has returned.
C5_Witness ==
    /\ lastRead.exc = "JSONDecodeError"
    /\ file.text # <<>>
    /\ lastRead.val = DefaultStore

-----------------------------------------------------------------------------
(* C6 *)

\* C6 as stated: save_data never raises; every I/O failure, every
\* deserialization failure of the existing file and every serialization
\* failure ends in false.
C6_EveryFailureIsFalse ==
    \A p \in Procs :
        Returned(p) =>
            /\ ret[p] \in {"True", "False"}
            /\ exc[p] # "none" => ret[p] = "False"
            /\ readExc[p] = "JSONDecodeError" => ret[p] = "False"

C6_Inv ==
    \A p \in Procs :
        Returned(p) =>
            /\ ret[p] \in {"True", "False"}
            /\ exc[p] # "none" => ret[p] = "False"
            /\ ~Serializable(data[p]) => ret[p] # "True"
            /\ (readExc[p] # "none" /\ exc[p] = "none") => ret[p] = "True"

C6_Step ==
    \A p \in Procs :
        (ret[p] = "pending" /\ ret'[p] = "True") =>
            /\ IsPrefix(Dump(storage[p]), file'.text)
            /\ storage[p].entries # <<>>
            /\ SameFields(Last(storage[p].entries), data[p])

\* C6 amended: save_data never raises; every failure to open or write the
\* file, every serialization failure of fields and an existing file that is
\* JSON but no store end in false; a missing, empty or unparseable existing
\* file does not fail the call; true is returned only when the whole store
\* with the new entry has been written.
C6_FailuresAreFalse == []C6_Inv /\ [][C6_Step]_vars

\* A call that found an unparseable file has returned true.
C6_Witness ==
    \E p \in Procs :
        Succeeded(p) /\ readExc[p] = "JSONDecodeError"

-----------------------------------------------------------------------------
(* C7 *)

\* C7: when two overlapping save_data calls have both returned true, the file
\* is the store written in full by one of them.
C7_OneWriterWins ==
    (Succeeded(1) /\ Succeeded(2)) =>
        \/ file.text = Dump(storage[1])
        \/ file.text = Dump(storage[2])

\* The lost update of C7: both calls returned true and the file holds the
\* store of caller 2 alone, which lacks the entry of caller 1.
C7_LostUpdate ==
    /\ Succeeded(1) /\ Succeeded(2)
    /\ file.text = Dump(storage[2])
    /\ Len(storage[2].entries) = 1
    /\ Last(storage[1].entries) # Last(storage[2].entries)

-----------------------------------------------------------------------------
(* C8 *)

Answered == queries' # queries /\ lastQuery'.outcome = "answered"

QA == [question |-> lastQuery'.query, answer |-> lastQuery'.answer]

C8_Step ==
    queries' # queries =>
        /\ logCalls' = logCalls
        /\ UNCHANGED storageVars
        /\ IF lastQuery'.outcome = "answered"
           THEN /\ ~IsBlank(lastQuery'.query)
                /\ query_engine # "None"
                /\ chat_history' = Append(chat_history, QA)
           ELSE chat_history' = chat_history

-----------------------------------------------------------------------------
(* C9 *)

\* C9: a save_data of encodable fields that finds the file missing, empty or
\* unparseable and meets no I/O error returns true, and the file then holds
\* exactly one entry (the new one), a lastUpdated and the default metadata.
C9_FreshStoreOnCorruptFile ==
    ( /\ Returned(1)
      /\ readExc[1] # "none"
      /\ Serializable(data[1])
      /\ exc[1] # "OSError" ) =>
        /\ ret[1] = "True"
        /\ Load(file.text).ok
        /\ LET s == Load(file.text).val
           IN  /\ s.type = "dict"
               /\ Len(s.entries) = 1
               /\ SameFields(s.entries[1], data[1])
               /\ s.entries[1].timestamp # Absent
               /\ s.lastUpdated \notin {Null, Absent}
               /\ s.metadata = [version |-> Str(10), description |-> Str(11)]

\* A call that found a truncated file has returned.
C9_Witness ==
    /\ Succeeded(1)
    /\ readExc[1] = "JSONDecodeError"
    /\ calls = 1

-----------------------------------------------------------------------------
(* C10 *)

C10_Inv ==
    \A p \in Procs :
        Succeeded(p) =>
            /\ Last(storage[p].entries).timestamp
                  \in {Isoformat(t) : t \in 0..clock}
            /\ IsPrefix(Dump(storage[p]), file.text) \/ ~solo[p]

C10_Step ==
    \A p \in Procs :
        /\ (pc[p] = "l12" /\ pc'[p] = "l16") =>
              /\ Last(storage'[p].entries).timestamp = Isoformat(clock)
              /\ IsPrefix(storage[p].entries, storage'[p].entries)
              /\ storage'[p].metadata = storage[p].metadata
              /\ storage'[p].lastUpdated = storage[p].lastUpdated
        /\ (pc[p] = "l16" /\ pc'[p] = "l18") =>
              /\ storage'[p].entries = storage[p].entries
              /\ storage'[p].metadata = storage[p].metadata
        /\ (pc[p] \in {"l18", "l19"} /\ pc'[p] # "idle") =>
              storage'[p] = storage[p]

\* C10: the timestamp of the entry save_data stores is the clock value it read
\* when appending, also when fields has a timestamp key of its own; between
\* reading the store and writing it back save_data changes only entries and
\* lastUpdated, and metadata is written as it was read.
C10_LogAssignsTimestamp == []C10_Inv /\ [][C10_Step]_vars

\* A call whose fields bring their own timestamp, on a store with metadata
\* other than the default, has succeeded.
C10_Witness ==
    \E p \in Procs :
        /\ Succeeded(p)
        /\ data[p].timestamp # Absent
        /\ storage[p].metadata = OldMetadata

====
